---- MODULE Spec2Model ----
(***************************************************************************)
(* riscv-xdevs: the Generator / Processor / Transducer atomic models of    *)
(* src/src/lib.rs, the coupled models PT, GPT, EF and EFP, and the         *)
(* real-time pacing closures of src/examples (wait_poll, wait_sleep,       *)
(* annsim24's wait_until, simple_exti's wait) together with the interrupt  *)
(* handlers GPIO9 and MachineTimer.                                        *)
(*                                                                         *)
(* Time.  Virtual time (f64 seconds in the code) is held in units of 1/10  *)
(* second: Second = 10.  f64::INFINITY is the value INFINITY, with the     *)
(* IEEE rules inf - e = inf, t + inf = inf.  Rounding of f64 is not        *)
(* modelled: all durations used are multiples of 1/10 s.                   *)
(* The CLINT tick counter runs at FREQ ticks per second, scaled down from  *)
(* 32768 so that a whole run of 15 s is a few dozen ticks.                 *)
(*                                                                         *)
(* The engine (xdevs::simulator::Simulator and the code that the           *)
(* xdevs::component! macro expands to) belongs to the xdevs dependency; it *)
(* is modelled after section 4.3 of the specification, with the tie of a   *)
(* model that is imminent and has input resolved by the confluent          *)
(* transition (delta_int, then delta_ext with e = 0).                      *)
(***************************************************************************)
EXTENDS Integers, Sequences, FiniteSets, TLC

\* ticks per second of CLINT's mtime (CLINT::freq(), FREQ), scaled down
FREQ == 2
\* one second of virtual time, in model time units (1/10 s)
Second == 5 * FREQ
\* f64::INFINITY
INFINITY == 1000000
\* u64::MAX, the "never fire" value of mtimecmp
U64MAX == 2000000

\* ---- bounds of the model ------------------------------------------------
\* the tick counter stops advancing here (two ticks past the horizon)
MaxTick == 32
\* button interrupts per run
MaxPress == 2
\* spurious wake-ups of wfi per run
MaxSpurious == 1

\* ---- f64 arithmetic with infinity ----------------------------------------
FSub(a, e) == IF a = INFINITY THEN INFINITY ELSE a - e
FAdd(a, b) == IF a = INFINITY \/ b = INFINITY THEN INFINITY ELSE a + b
FMin(a, b) == IF a <= b THEN a ELSE b

\* ---- time conversions ----------------------------------------------------
\* t as u64 * freq: the time is truncated to whole seconds first
secf64_to_ticku64(t) == (t \div Second) * FREQ
\* t as f64 / freq
ticku64_to_secf64(k) == (k * Second) \div FREQ
\* (ticks) * 1_000_000 / freq
ticks_to_us(k) == (k * 1000000) \div FREQ

\* ---- Option<usize> and bags ---------------------------------------------
None == << >>
Some(v) == << v >>
IsSome(o) == Len(o) = 1
Last(s) == s[Len(s)]

\* ---- Generator (lib.rs, mod generator) -----------------------------------
GeneratorState_new(period) == [sigma |-> 0, period |-> period, count |-> 0]

\* variant of delta_int that schedules the next job one period in the past
G_delta_int_minus(s) ==
    [s EXCEPT !.count = s.count + 1, !.sigma = FSub(s.sigma, s.period)]
G_delta_int(s) == [s EXCEPT !.count = s.count + 1, !.sigma = s.period]

\* the values lambda adds to out_job
\* variant of lambda that emits the count after the increment
G_lambda_incremented(s) == << s.count + 1 >>
G_lambda(s) == << s.count >>

G_ta(s) == s.sigma

\* variant of delta_ext that ignores in_stop
G_delta_ext_nostop(s, e, in_stop) == [s EXCEPT !.sigma = FSub(s.sigma, e)]
G_delta_ext(s, e, in_stop) ==
    LET s1 == [s EXCEPT !.sigma = FSub(s.sigma, e)]
    IN  IF in_stop # << >> /\ Last(in_stop) = TRUE
        THEN [s1 EXCEPT !.sigma = INFINITY]
        ELSE s1

\* ---- Processor (lib.rs, mod processor) -----------------------------------
ProcessorState_new(time) ==
    [sigma |-> 0, time |-> time, job |-> None, redled |-> FALSE]

\* variant of stop that leaves the LED as it is
P_stop_keep(s) == s
P_stop(s) == [s EXCEPT !.redled = FALSE]

P_delta_int(s) ==
    LET s1 == [s EXCEPT !.sigma = INFINITY]
    IN  IF IsSome(s.job)
        THEN [s1 EXCEPT !.job = None, !.redled = FALSE]
        ELSE s1

P_lambda(s) == IF IsSome(s.job) THEN << s.job[1] >> ELSE << >>

P_ta(s) == s.sigma

\* variant of delta_ext that lets an arriving job replace the one in service
P_delta_ext_overwrite(s, e, in_job) ==
    LET s1 == [s EXCEPT !.sigma = FSub(s.sigma, e)]
    IN  IF in_job # << >>
        THEN [s1 EXCEPT !.job = Some(Last(in_job)), !.sigma = s.time,
                        !.redled = TRUE]
        ELSE s1
P_delta_ext(s, e, in_job) ==
    LET s1 == [s EXCEPT !.sigma = FSub(s.sigma, e)]
    IN  IF in_job # << >>
        THEN IF s1.job = None
             THEN [s1 EXCEPT !.job = Some(Last(in_job)), !.sigma = s.time,
                             !.redled = TRUE]
             ELSE s1
        ELSE s1

\* ---- Transducer (lib.rs, mod transducer) ---------------------------------
TransducerState_new(obs_time) ==
    [sigma |-> obs_time, clock |-> 0, n_gen |-> 0, n_proc |-> 0]

\* variant of delta_int that leaves sigma as it is
T_delta_int_rearm(s) == [s EXCEPT !.clock = FAdd(s.clock, s.sigma)]
T_delta_int(s) ==
    [s EXCEPT !.clock = FAdd(s.clock, s.sigma), !.sigma = INFINITY]

\* the (acceptance, throughput) that delta_int prints, each as the pair
\* << numerator, denominator >> of the f64 division; (0.0, 0.0) is << 0, 1 >>
T_stats(s) ==
    LET clock == FAdd(s.clock, s.sigma)
    IN  IF s.n_proc > 0
        THEN [acceptance |-> << s.n_proc, s.n_gen >>,
              throughput |-> << s.n_proc, clock >>]
        ELSE [acceptance |-> << 0, 1 >>, throughput |-> << 0, 1 >>]

T_lambda(s) == << TRUE >>

T_ta(s) == s.sigma

\* variant of delta_ext that leaves the clock where it was
T_delta_ext_noclock(s, e, in_gen, in_proc) ==
    [s EXCEPT !.sigma = FSub(s.sigma, e),
              !.n_gen = s.n_gen + Len(in_gen),
              !.n_proc = s.n_proc + Len(in_proc)]
T_delta_ext(s, e, in_gen, in_proc) ==
    [s EXCEPT !.sigma = FSub(s.sigma, e),
              !.clock = FAdd(s.clock, e),
              !.n_gen = s.n_gen + Len(in_gen),
              !.n_proc = s.n_proc + Len(in_proc)]

\* ---- ports and bags (xdevs::port::Port<T, N>) ----------------------------
\* capacity N of each port, as declared in the component! invocations
Capacity ==
    [g_in_stop |-> 1, g_out_job |-> 1, p_in_job |-> 1, p_out_job |-> 1,
     t_in_gen |-> 2, t_in_proc |-> 1, t_out_stop |-> 1,
     ef_in_processor |-> 1, ef_out_generator |-> 1,
     pt_in_job |-> 1, pt_out_stop |-> 1]

EmptyBags == [p \in DOMAIN Capacity |-> << >>]

\* Port::add_value / add_values: Err when the bag would exceed its capacity
CanAdd(bags, port, vals) == Len(bags[port]) + Len(vals) <= Capacity[port]

\* ---- the model tree -------------------------------------------------------
\* w: [gen, proc, trans : states; clk : t_last / t_next of each atomic;
\*     bags; tr : the transition each atomic made in the last delta;
\*     panic : an unwrap()/expect() on a full port failed]
NoTr == [kind |-> "none", e |-> 0]

NewTree(period, time, obs_time) ==
    [gen   |-> GeneratorState_new(period),
     proc  |-> ProcessorState_new(time),
     trans |-> TransducerState_new(obs_time),
     clk   |-> [g |-> [t_last |-> 0, t_next |-> 0],
                p |-> [t_last |-> 0, t_next |-> 0],
                t |-> [t_last |-> 0, t_next |-> 0]],
     bags  |-> EmptyBags,
     tr    |-> [g |-> NoTr, p |-> NoTr, t |-> NoTr],
     panic |-> FALSE]

HasG(model) == model \in {"GPT", "EFP"}

\* output.port.add_value(v).unwrap() and the couplings' add_values
Put(w, port, vals) ==
    IF vals = << >> THEN w
    ELSE IF CanAdd(w.bags, port, vals)
         THEN [w EXCEPT !.bags[port] = w.bags[port] \o vals]
         ELSE [w EXCEPT !.panic = TRUE]

\* one coupling: every value of the source bag is appended to the destination
Couple(w, from, to) == Put(w, to, w.bags[from])

\* ---- atomic simulators (component! expansion for an atomic model) ----------
\* start: t_last = t_start, t_next = t_start + ta
StartTree(w, model, t_start) ==
    [w EXCEPT
       !.clk.g = [t_last |-> t_start,
                  t_next |-> IF HasG(model) THEN FAdd(t_start, G_ta(w.gen))
                             ELSE INFINITY],
       !.clk.p = [t_last |-> t_start, t_next |-> FAdd(t_start, P_ta(w.proc))],
       !.clk.t = [t_last |-> t_start, t_next |-> FAdd(t_start, T_ta(w.trans))]]

\* lambda(t): the model's lambda runs only if t >= t_next
LambdaG(w, t) ==
    IF t >= w.clk.g.t_next THEN Put(w, "g_out_job", G_lambda(w.gen)) ELSE w
LambdaP(w, t) ==
    IF t >= w.clk.p.t_next THEN Put(w, "p_out_job", P_lambda(w.proc)) ELSE w
LambdaT(w, t) ==
    IF t >= w.clk.t.t_next THEN Put(w, "t_out_stop", T_lambda(w.trans)) ELSE w

\* which transition delta(t) selects
\* variant in which an imminent model makes its internal transition only
DeltaKindExclusive(hasInput, imminent) ==
    IF imminent THEN "int" ELSE IF hasInput THEN "ext" ELSE "none"
DeltaKind(hasInput, imminent) ==
    IF hasInput THEN (IF imminent THEN "conf" ELSE "ext")
    ELSE IF imminent THEN "int" ELSE "none"

\* delta(t) of the Generator's simulator
DeltaG(w, t) ==
    LET x    == w.bags.g_in_stop
        kind == DeltaKind(x # << >>, t >= w.clk.g.t_next)
        e    == IF kind = "ext" THEN t - w.clk.g.t_last ELSE 0
        s2   == CASE kind = "conf" -> G_delta_ext(G_delta_int(w.gen), 0, x)
                  [] kind = "ext"  -> G_delta_ext(w.gen, e, x)
                  [] kind = "int"  -> G_delta_int(w.gen)
                  [] OTHER         -> w.gen
    IN  IF kind = "none" THEN [w EXCEPT !.tr.g = NoTr]
        ELSE [w EXCEPT !.gen = s2,
                       !.bags.g_in_stop = << >>, !.bags.g_out_job = << >>,
                       !.clk.g = [t_last |-> t, t_next |-> FAdd(t, G_ta(s2))],
                       !.tr.g = [kind |-> kind, e |-> e]]

\* delta(t) of the Processor's simulator
DeltaP(w, t) ==
    LET x    == w.bags.p_in_job
        kind == DeltaKind(x # << >>, t >= w.clk.p.t_next)
        e    == IF kind = "ext" THEN t - w.clk.p.t_last ELSE 0
        s2   == CASE kind = "conf" -> P_delta_ext(P_delta_int(w.proc), 0, x)
                  [] kind = "ext"  -> P_delta_ext(w.proc, e, x)
                  [] kind = "int"  -> P_delta_int(w.proc)
                  [] OTHER         -> w.proc
    IN  IF kind = "none" THEN [w EXCEPT !.tr.p = NoTr]
        ELSE [w EXCEPT !.proc = s2,
                       !.bags.p_in_job = << >>, !.bags.p_out_job = << >>,
                       !.clk.p = [t_last |-> t, t_next |-> FAdd(t, P_ta(s2))],
                       !.tr.p = [kind |-> kind, e |-> e]]

\* delta(t) of the Transducer's simulator
DeltaT(w, t) ==
    LET xg   == w.bags.t_in_gen
        xp   == w.bags.t_in_proc
        kind == DeltaKind(xg # << >> \/ xp # << >>, t >= w.clk.t.t_next)
        e    == IF kind = "ext" THEN t - w.clk.t.t_last ELSE 0
        s2   == CASE kind = "conf" -> T_delta_ext(T_delta_int(w.trans), 0, xg, xp)
                  [] kind = "ext"  -> T_delta_ext(w.trans, e, xg, xp)
                  [] kind = "int"  -> T_delta_int(w.trans)
                  [] OTHER         -> w.trans
    IN  IF kind = "none" THEN [w EXCEPT !.tr.t = NoTr]
        ELSE [w EXCEPT !.trans = s2,
                       !.bags.t_in_gen = << >>, !.bags.t_in_proc = << >>,
                       !.bags.t_out_stop = << >>,
                       !.clk.t = [t_last |-> t, t_next |-> FAdd(t, T_ta(s2))],
                       !.tr.t = [kind |-> kind, e |-> e]]

\* ---- coupled simulators (component! expansion for a coupled model) --------
\* t_next of a coupled model: the minimum over its components
TNextEF(w) == FMin(w.clk.g.t_next, w.clk.t.t_next)
TNextRoot(w, model) ==
    IF HasG(model)
    THEN FMin(w.clk.g.t_next, FMin(w.clk.p.t_next, w.clk.t.t_next))
    ELSE FMin(w.clk.p.t_next, w.clk.t.t_next)

\* PT: lambda of the components, then IC and EOC
LambdaPT(w, t) ==
    LET w1 == LambdaT(LambdaP(w, t), t)
        w2 == Couple(w1, "p_out_job", "t_in_proc")
    IN  Couple(w2, "t_out_stop", "pt_out_stop")

\* PT: EIC, then delta of the components, then the coupled model's ports clear
\* variant without the coupling of in_job to the Transducer's in_gen
DeltaPT_no_in_gen(w, t) ==
    LET w1 == Couple(w, "pt_in_job", "p_in_job")
        w3 == DeltaT(DeltaP(w1, t), t)
    IN  [w3 EXCEPT !.bags.pt_in_job = << >>, !.bags.pt_out_stop = << >>]
\* variant that does not clear the coupled model's own ports
DeltaPT_keep_ports(w, t) ==
    LET w1 == Couple(w, "pt_in_job", "p_in_job")
        w2 == Couple(w1, "pt_in_job", "t_in_gen")
    IN  DeltaT(DeltaP(w2, t), t)
DeltaPT(w, t) ==
    LET w1 == Couple(w, "pt_in_job", "p_in_job")
        w2 == Couple(w1, "pt_in_job", "t_in_gen")
        w3 == DeltaT(DeltaP(w2, t), t)
    IN  [w3 EXCEPT !.bags.pt_in_job = << >>, !.bags.pt_out_stop = << >>]

\* GPT
LambdaGPT(w, t) ==
    LET w1 == LambdaT(LambdaP(LambdaG(w, t), t), t)
        w2 == Couple(w1, "g_out_job", "p_in_job")
        w3 == Couple(w2, "p_out_job", "t_in_proc")
        w4 == Couple(w3, "g_out_job", "t_in_gen")
    IN  Couple(w4, "t_out_stop", "g_in_stop")

DeltaGPT(w, t) == DeltaT(DeltaP(DeltaG(w, t), t), t)

\* EF, a component of EFP
LambdaEF(w, t) ==
    IF t >= TNextEF(w)
    THEN LET w1 == LambdaT(LambdaG(w, t), t)
             w2 == Couple(w1, "g_out_job", "t_in_gen")
             w3 == Couple(w2, "t_out_stop", "g_in_stop")
         IN  Couple(w3, "g_out_job", "ef_out_generator")
    ELSE w

DeltaEF(w, t) ==
    LET w1 == Couple(w, "ef_in_processor", "t_in_proc")
        w2 == DeltaT(DeltaG(w1, t), t)
    IN  [w2 EXCEPT !.bags.ef_in_processor = << >>,
                   !.bags.ef_out_generator = << >>]

\* EFP
LambdaEFP(w, t) ==
    LET w1 == LambdaP(LambdaEF(w, t), t)
        w2 == Couple(w1, "ef_out_generator", "p_in_job")
    IN  Couple(w2, "p_out_job", "ef_in_processor")

DeltaEFP(w, t) == DeltaP(DeltaEF(w, t), t)

\* the root model's lambda(t) (guarded by t >= t_next) and delta(t)
LambdaRoot(w, model, t) ==
    IF t >= TNextRoot(w, model)
    THEN CASE model = "GPT" -> LambdaGPT(w, t)
           [] model = "EFP" -> LambdaEFP(w, t)
           [] OTHER         -> LambdaPT(w, t)
    ELSE w

DeltaRoot(w, model, t) ==
    CASE model = "GPT" -> DeltaGPT(w, t)
      [] model = "EFP" -> DeltaEFP(w, t)
      [] OTHER         -> DeltaPT(w, t)

\* stop(t_stop): the teardown hook of every component
StopRoot(w) == [w EXCEPT !.proc = P_stop(w.proc)]

\* ======================= the running program ==============================
VARIABLES
    example,  \* which example binary runs (its pacing closure and handlers)
    model,    \* the root model: "GPT", "EFP" or "PT"
    cfg,      \* period, proc_time, obs_time, t_sim, max_jitter_us of main()
    m,        \* the model tree
    t,        \* simulate_rt: t
    tni,      \* simulate_rt: t_next_internal
    pc,       \* position of the main loop
    wl,       \* the pacing closure: t_next, next_tick, debounce, count
    hw,       \* mtime, mtimecmp, mie.mtimer, the PRESSED flag, the blue LED
    obs       \* observations of the run (history only, never read by actions)

vars == << example, model, cfg, m, t, tni, pc, wl, hw, obs >>

PollExamples  == {"poll", "simple_poll", "sim_blink"}
SleepExamples == {"sleep", "simple_sleep"}
ExtiExamples  == {"annsim24", "simple_exti"}
Examples      == PollExamples \cup SleepExamples \cup ExtiExamples

\* let period / proc_time / obs_time / t_sim of the examples' main()
Periods   == {1 * Second, 2 * Second}
\* n tenths of a second, in model time units
Tenths(n) == (n * Second) \div 10
ProcTimes == {Tenths(11), Tenths(21)}
ObsTime   == 10 * Second
TSim      == 15 * Second
\* max_jitter_us: None, or the Some(..) of poll.rs / sleep.rs / sim_blink.rs
MaxJitters(ex) ==
    CASE ex = "poll"      -> {None, Some(5000)}
      [] ex = "sleep"     -> {None, Some(7000)}
      [] ex = "sim_blink" -> {Some(1800)}
      [] OTHER            -> {None}

\* observations of the last return of the closure and of its jitter computation
NoRet == [valid |-> FALSE, r |-> 0, t_next |-> 0, tick |-> 0, inserted |-> 0]
NoJit == [valid |-> FALSE, observed |-> 0, target |-> 0, us |-> 0]
\* observation of the statistics the Transducer printed: the step's time, the
\* state delta_int started from and the two quotients
\* observation of a failed add_value of an injector: the bag, the counter and
\* the debounce timestamp before the attempt
NoInj == [valid |-> FALSE, failed |-> FALSE, bag |-> << >>, count |-> 0,
          debounce |-> 0]
\* observation of the job the Processor accepted last: its id, the time of the
\* acceptance, and the times at which it was put on out_job
NoJob == [valid |-> FALSE, id |-> 0, at |-> 0, emits |-> 0, out |-> << >>]
\* observation of annsim24's last debounce test: the tick read, the timestamp
\* it was compared with, the outcome, and the number of events accepted before
NoDeb == [valid |-> FALSE, now |-> 0, debounce |-> 0, ok |-> FALSE, count |-> 0]
NoReport == [valid |-> FALSE, t |-> 0, n_gen |-> 0, n_proc |-> 0,
             acceptance |-> << 0, 1 >>, throughput |-> << 0, 1 >>]

Init ==
    /\ example \in Examples
    /\ model \in (IF example \in ExtiExamples THEN {"PT"} ELSE {"GPT", "EFP"})
    /\ cfg \in [period     : IF example \in ExtiExamples THEN {Second} ELSE Periods,
                time       : IF example \in ExtiExamples
                             THEN {Tenths(21)} ELSE ProcTimes,
                obs_time   : {ObsTime},
                t_stop     : {TSim},
                max_jitter : MaxJitters(example)]
    /\ cfg.period = Second \/ cfg.time = Tenths(21)
    /\ example = "sim_blink" =>
           model = "EFP" /\ cfg.period = Second /\ cfg.time = Tenths(11)
    /\ m = StartTree(NewTree(cfg.period, cfg.time, cfg.obs_time), model, 0)
    /\ t = 0
    /\ tni = TNextRoot(m, model)
    /\ pc = "sim_loop"
    /\ wl = [t_next |-> 0, next_tick |-> 0, debounce |-> 0, count |-> 0]
    /\ hw = [mtime |-> 0, mtimecmp |-> U64MAX, mtie |-> FALSE,
             pressed |-> FALSE, blueled |-> FALSE]
    /\ obs = [presses |-> 0, successes |-> 0, bursts |-> 0, spurious |-> 0,
              checked |-> FALSE, inserted |-> 0, prevT |-> 0,
              body |-> FALSE, early |-> FALSE, inj |-> NoInj,
              pend |-> FALSE, armed |-> FALSE, job |-> NoJob, deb |-> NoDeb,
              stepped |-> FALSE,
              ret |-> NoRet, jit |-> NoJit, report |-> NoReport,
              jobsOut |-> {}, stopOut |-> {}, nStop |-> 0, gotStop |-> FALSE,
              pre |-> [proc |-> m.proc, p_in |-> << >>, clk |-> m.clk]]

\* ---- interrupts -----------------------------------------------------------
\* the machine-timer interrupt is pending and enabled
TimerPending == hw.mtie /\ hw.mtime >= hw.mtimecmp

\* the main loop executes its next instruction only when no enabled interrupt
\* is pending (the trap is taken first)
CanRun == ~TimerPending /\ pc \notin {"done", "panic"}

\* a handler that runs while the core is halted in wfi resumes the main loop
AfterHandler == IF pc = "w_halt" THEN "w_loop" ELSE pc

\* fn MachineTimer(): mtimecmp0.write(u64::MAX)
MachineTimer ==
    /\ TimerPending
    /\ pc \notin {"done", "panic"}
    /\ hw' = [hw EXCEPT !.mtimecmp = U64MAX]
    /\ pc' = AfterHandler
    /\ UNCHANGED << example, model, cfg, m, t, tni, wl, obs >>

\* annsim24's wait_until is waiting with the tick below its target and more
\* than one second of ticks since the last accepted event
Waiting ==
    /\ example = "annsim24"
    /\ pc \in {"w_loop", "w_cas", "w_now", "w_cmp", "w_enable", "w_wfi", "w_halt"}
    /\ hw.mtime < wl.next_tick
    /\ hw.mtime - wl.debounce > FREQ

\* fn GPIO9(): PRESSED.store(true, Release)
GPIO9 ==
    /\ example \in ExtiExamples
    /\ pc \notin {"done", "panic"}
    /\ obs.presses < MaxPress
    /\ hw' = [hw EXCEPT !.pressed = TRUE]
    /\ pc' = AfterHandler
    /\ obs' = [obs EXCEPT !.presses = @ + 1,
                          !.bursts = IF hw.pressed THEN @ ELSE @ + 1,
                          !.checked = FALSE,
                          !.armed = @ \/ Waiting]
    /\ UNCHANGED << example, model, cfg, m, t, tni, wl >>

\* wfi may resume for a reason other than the machine timer (an unrelated
\* interrupt); in the exti examples that other source is GPIO9 above
SpuriousWake ==
    /\ example \in SleepExamples
    /\ pc = "w_halt"
    /\ obs.spurious < MaxSpurious
    /\ pc' = "w_loop"
    /\ obs' = [obs EXCEPT !.spurious = @ + 1,
                          !.early = @ \/ hw.mtime < wl.next_tick]
    /\ UNCHANGED << example, model, cfg, m, t, tni, wl, hw >>

\* The free-running tick counter.  It is advanced only where the program can
\* tell: before an instruction that reads mtime, between mtimer_enable and wfi,
\* while the core is halted, and once per simulation step (the time the engine
\* takes).  A tick at any other position commutes with the instruction there.
TickVisible ==
    {"sim_loop", "w_loop", "w_now", "w_wfi", "w_halt", "w_read", "w_jitter"}

Tick ==
    /\ pc \in TickVisible
    /\ hw.mtime < MaxTick
    /\ hw' = [hw EXCEPT !.mtime = @ + 1]
    /\ UNCHANGED << example, model, cfg, m, t, tni, pc, wl, obs >>

\* ---- the pacing closures ---------------------------------------------------
\* let next_tick = t_next as u64 * CLINT::freq() as u64   (t_start = 0, t_scale = 1)
next_tick(t_next) == secf64_to_ticku64(t_next)

\* the loop condition  mtime.read() < next_tick
\* variant of the loop condition that leaves one tick before the target
WaitCondEarly(mtime, target) == mtime + 1 < target
WaitCond(mtime, target) == mtime < target

\* the closure returns r to simulate_rt:  t = wait_until(t_until, input)
Return(r) ==
    /\ t' = r
    /\ pc' = "sim_lambda"
    /\ obs' = [obs EXCEPT !.prevT = t,
                          !.ret = [valid |-> TRUE, r |-> r, t_next |-> wl.t_next,
                                   tick |-> hw.mtime, inserted |-> obs.inserted]]

\* simulate_rt:  while t < t_stop { t = wait_until(min(t_next_internal, t_stop), ..)
\*               ... }  model.stop(t_stop)
SimLoop ==
    /\ pc = "sim_loop" /\ CanRun
    /\ IF t < cfg.t_stop
       THEN /\ wl' = [wl EXCEPT !.t_next = FMin(tni, cfg.t_stop),
                                !.next_tick = next_tick(FMin(tni, cfg.t_stop))]
            /\ obs' = [obs EXCEPT !.inserted = 0, !.prevT = t,
                                  !.body = FALSE, !.early = FALSE,
                                  !.inj = NoInj, !.armed = FALSE,
                                  !.deb = NoDeb,
                                  !.ret = NoRet, !.jit = NoJit,
                                  !.pre = [proc |-> m.proc, p_in |-> << >>,
                                           clk |-> m.clk]]
            /\ pc' = "w_loop"
            /\ m' = m
       ELSE /\ m' = StopRoot(m)
            /\ pc' = "done"
            /\ UNCHANGED << wl, obs >>
    /\ UNCHANGED << example, model, cfg, t, tni, hw >>

\* while mtime.read() < next_tick { ... }
WLoop ==
    /\ pc = "w_loop" /\ CanRun
    /\ pc' = IF WaitCond(hw.mtime, wl.next_tick)
             THEN CASE example \in PollExamples -> "w_loop"
                    [] example = "annsim24"     -> "w_cas"
                    [] OTHER                    -> "w_cmp"
             ELSE CASE example \in PollExamples -> "w_jitter"
                    [] example = "simple_exti"  -> "w_ih"
                    [] OTHER                    -> "w_disable"
    /\ obs' = [obs EXCEPT !.pend = example = "simple_exti" /\ hw.pressed
                                      /\ WaitCond(hw.mtime, wl.next_tick)]
    /\ UNCHANGED << example, model, cfg, m, t, tni, wl, hw >>

\* AtomicBool::compare_exchange(current, new, ..): Ok and the new value stored
\* when the flag holds `current`, Err and the flag untouched otherwise
\* variant of compare_exchange that reports Ok without storing the new value
CompareExchangeNoClear(flag, current, new) ==
    [ok |-> flag = current, val |-> flag]
CompareExchange(flag, current, new) ==
    [ok |-> flag = current, val |-> IF flag = current THEN new ELSE flag]

\* annsim24: PRESSED.compare_exchange(true, false, Acquire, Relaxed).is_ok()
WCas ==
    /\ pc = "w_cas" /\ CanRun
    /\ LET cas == CompareExchange(hw.pressed, TRUE, FALSE)
       IN  /\ hw' = [hw EXCEPT !.pressed = cas.val]
           /\ pc' = IF cas.ok THEN "w_now" ELSE "w_cmp"
           /\ obs' = [obs EXCEPT !.successes = IF cas.ok THEN @ + 1 ELSE @,
                                 !.checked = TRUE]
    /\ UNCHANGED << example, model, cfg, m, t, tni, wl >>

\* the debounce test  now - debounce > CLINT::freq() as u64
\* variant of the test that accepts every event
DebounceOkAlways(now, debounce) == TRUE
DebounceOk(now, debounce) == now - debounce > FREQ

\* annsim24: let now = mtime.read(); if now - debounce > freq { debounce = now;
\*           if input.in_job.add_value(count).is_ok() { count += 1; break } else {..} }
WNow ==
    /\ pc = "w_now" /\ CanRun
    /\ LET now == hw.mtime
           inj == [valid |-> TRUE, failed |-> TRUE,
                   bag |-> m.bags.pt_in_job, count |-> wl.count,
                   debounce |-> wl.debounce]
           deb == [valid |-> TRUE, now |-> now, debounce |-> wl.debounce,
                   ok |-> DebounceOk(now, wl.debounce), count |-> wl.count]
       IN  IF DebounceOk(now, wl.debounce)
           THEN IF CanAdd(m.bags, "pt_in_job", << wl.count >>)
                THEN /\ m' = Put(m, "pt_in_job", << wl.count >>)
                     /\ wl' = [wl EXCEPT !.debounce = now, !.count = @ + 1]
                     /\ obs' = [obs EXCEPT !.inserted = @ + 1, !.deb = deb]
                     /\ pc' = "w_disable"
                ELSE /\ wl' = [wl EXCEPT !.debounce = now]
                     /\ pc' = "w_cmp"
                     /\ obs' = [obs EXCEPT !.inj = inj, !.deb = deb]
                     /\ m' = m
           ELSE /\ pc' = "w_cmp"
                /\ obs' = [obs EXCEPT !.deb = deb]
                /\ UNCHANGED << m, wl >>
    /\ UNCHANGED << example, model, cfg, t, tni, hw >>

\* simple_exti: || !ihandler(input), with input_handler's compare_exchange,
\*              add_value(count) and count += 1
WInputHandler ==
    /\ pc = "w_ih" /\ CanRun
    /\ IF CompareExchange(hw.pressed, TRUE, FALSE).ok
       THEN /\ hw' = [hw EXCEPT !.pressed =
                                   CompareExchange(hw.pressed, TRUE, FALSE).val]
            /\ m' = IF CanAdd(m.bags, "pt_in_job", << wl.count >>)
                    THEN Put(m, "pt_in_job", << wl.count >>) ELSE m
            /\ wl' = [wl EXCEPT !.count = @ + 1]
            /\ obs' = [obs EXCEPT
                         !.successes = @ + 1, !.checked = TRUE,
                         !.inj = IF CanAdd(m.bags, "pt_in_job", << wl.count >>)
                                 THEN @
                                 ELSE [valid |-> TRUE, failed |-> TRUE,
                                       bag |-> m.bags.pt_in_job,
                                       count |-> wl.count,
                                       debounce |-> wl.debounce],
                         !.inserted = IF CanAdd(m.bags, "pt_in_job", << wl.count >>)
                                      THEN @ + 1 ELSE @]
            /\ pc' = "w_disable"
       ELSE /\ pc' = "w_cmp"
            /\ obs' = [obs EXCEPT !.checked = TRUE]
            /\ UNCHANGED << hw, m, wl >>
    /\ UNCHANGED << example, model, cfg, t, tni >>

\* mtimecmp.write(next_tick)
WCmp ==
    /\ pc = "w_cmp" /\ CanRun
    /\ hw' = [hw EXCEPT !.mtimecmp = wl.next_tick]
    /\ pc' = "w_enable"
    /\ obs' = [obs EXCEPT !.body = TRUE, !.pend = FALSE,
                          !.deb = NoDeb]
    /\ UNCHANGED << example, model, cfg, m, t, tni, wl >>

\* CLINT::mtimer_enable()
WEnable ==
    /\ pc = "w_enable" /\ CanRun
    /\ hw' = [hw EXCEPT !.mtie = TRUE]
    /\ pc' = "w_wfi"
    /\ UNCHANGED << example, model, cfg, m, t, tni, wl, obs >>

\* riscv::asm::wfi(): the core halts until a handler has run
WWfi ==
    /\ pc = "w_wfi" /\ CanRun
    /\ pc' = "w_halt"
    /\ UNCHANGED << example, model, cfg, m, t, tni, wl, hw, obs >>

\* CLINT::mtimer_disable()
\* variant in which the call leaves the interrupt enabled
WDisableSkipped ==
    /\ pc = "w_disable" /\ CanRun
    /\ pc' = IF example \in ExtiExamples THEN "w_read" ELSE "w_jitter"
    /\ obs' = [obs EXCEPT !.deb = NoDeb]
    /\ UNCHANGED << example, model, cfg, m, t, tni, wl, hw >>
WDisable ==
    /\ pc = "w_disable" /\ CanRun
    /\ hw' = [hw EXCEPT !.mtie = FALSE]
    /\ pc' = IF example \in ExtiExamples THEN "w_read" ELSE "w_jitter"
    /\ obs' = [obs EXCEPT !.deb = NoDeb]
    /\ UNCHANGED << example, model, cfg, m, t, tni, wl >>

\* annsim24, simple_exti: let current_tick = mtime.read();
\*   if current_tick < next_tick { current_tick as f64 / freq } else { .. t_next }
WRead ==
    /\ pc = "w_read" /\ CanRun
    /\ LET current_tick == hw.mtime
       IN  IF current_tick < wl.next_tick
           THEN Return(ticku64_to_secf64(current_tick))
           ELSE IF example = "annsim24"
                THEN Return(wl.t_next)
                ELSE /\ pc' = "w_jitter"
                     /\ UNCHANGED << t, obs >>
    /\ UNCHANGED << example, model, cfg, m, tni, wl, hw >>

\* the test that ends in panic!():  jitter > max_jitter, on microseconds in
\* poll.rs and sleep.rs, on ticks (max_jitter_us * FREQ / 1_000_000) in
\* sim_blink.rs
\* variant of the test that never finds the jitter too high
JitterTooHighNever(ex, jitter_ticks, max_jitter_us) == FALSE
JitterTooHigh(ex, jitter_ticks, max_jitter_us) ==
    IF ex = "sim_blink"
    THEN jitter_ticks > (max_jitter_us * FREQ) \div 1000000
    ELSE ticks_to_us(jitter_ticks) > max_jitter_us

\* let jitter = (mtime.read() - next_tick) * 1_000_000 / freq;
\* if jitter > max_jitter { panic!(..) }   t_next
WJitter ==
    /\ pc = "w_jitter" /\ CanRun
    /\ LET computed == example \notin {"poll", "sleep", "sim_blink"}
                           \/ cfg.max_jitter # None
           jitter   == ticks_to_us(hw.mtime - wl.next_tick)
           j        == [valid |-> TRUE, observed |-> hw.mtime,
                        target |-> wl.next_tick, us |-> jitter]
       IN  IF /\ computed /\ cfg.max_jitter # None
              /\ JitterTooHigh(example, hw.mtime - wl.next_tick,
                               cfg.max_jitter[1])
           THEN /\ pc' = "panic"
                /\ obs' = [obs EXCEPT !.jit = j]
                /\ t' = t
           ELSE /\ t' = wl.t_next
                /\ pc' = "sim_lambda"
                /\ obs' = [obs EXCEPT
                             !.prevT = t,
                             !.jit = IF computed THEN j ELSE @,
                             !.ret = [valid |-> TRUE, r |-> wl.t_next,
                                      t_next |-> wl.t_next, tick |-> hw.mtime,
                                      inserted |-> obs.inserted]]
    /\ UNCHANGED << example, model, cfg, m, tni, wl, hw >>

\* ---- simulate_rt, after the wait ---------------------------------------------
\* if t >= t_next_internal { model.lambda(t); propagate_output(model.get_output()) }
SimLambda ==
    /\ pc = "sim_lambda" /\ CanRun
    /\ m' = IF t >= tni THEN LambdaRoot(m, model, t) ELSE m
    /\ hw' = [hw EXCEPT !.blueled = @ \/ (model = "PT" /\ t >= tni
                                         /\ m'.bags.pt_out_stop # << >>)]
    /\ obs' = [obs EXCEPT
                 !.stepped = TRUE,
                 !.job = IF m'.bags.p_out_job # << >>
                         THEN [@ EXCEPT !.emits = @ + 1,
                                        !.out = << t, m'.bags.p_out_job >>]
                         ELSE @,
                 !.jobsOut = @ \cup {<< t, m'.bags.g_out_job[i] >> :
                                       i \in 1..Len(m'.bags.g_out_job)},
                 !.stopOut = IF m'.bags.t_out_stop # << >> THEN @ \cup {t} ELSE @,
                 !.nStop = @ + Len(m'.bags.t_out_stop)]
    /\ pc' = IF m'.panic THEN "panic" ELSE "sim_delta"
    /\ UNCHANGED << example, model, cfg, t, tni, wl >>

\* t_next_internal = model.delta(t)
SimDelta ==
    /\ pc = "sim_delta" /\ CanRun
    /\ m' = DeltaRoot(m, model, t)
    /\ tni' = TNextRoot(m', model)
    /\ obs' = [obs EXCEPT
                 !.gotStop = @ \/ (\E i \in 1..Len(m.bags.g_in_stop) :
                                       m.bags.g_in_stop[i]),
                 !.job = IF \/ m'.tr.p.kind = "conf" /\ IsSome(m'.proc.job)
                            \/ m'.tr.p.kind = "ext" /\ m.proc.job = None
                                   /\ IsSome(m'.proc.job)
                         THEN [valid |-> TRUE, id |-> m'.proc.job[1], at |-> t,
                               emits |-> 0, out |-> << >>]
                         ELSE @,
                 !.report = IF m'.tr.t.kind \in {"int", "conf"}
                            THEN [valid |-> TRUE, t |-> t,
                                  n_gen |-> m.trans.n_gen,
                                  n_proc |-> m.trans.n_proc,
                                  acceptance |-> T_stats(m.trans).acceptance,
                                  throughput |-> T_stats(m.trans).throughput]
                            ELSE @,
                 !.pre = [proc |-> m.proc,
                          p_in |-> IF model = "PT" THEN m.bags.pt_in_job
                                   ELSE m.bags.p_in_job,
                          clk |-> m.clk]]
    /\ pc' = IF m'.panic THEN "panic" ELSE "sim_loop"
    /\ UNCHANGED << example, model, cfg, t, wl, hw >>

Next ==
    \/ SimLoop \/ WLoop \/ WCas \/ WNow \/ WInputHandler
    \/ WCmp \/ WEnable \/ WWfi \/ WDisable \/ WRead \/ WJitter
    \/ SimLambda \/ SimDelta
    \/ Tick \/ GPIO9 \/ MachineTimer \/ SpuriousWake

Spec == Init /\ [][Next]_vars

\* ---- the runs of one family of examples -------------------------------------
\* GPT / EFP paced by wait_poll or wait_sleep (no button)
InitEFP == Init /\ example \in PollExamples \cup SleepExamples
NextEFP ==
    \/ SimLoop \/ WLoop \/ WCmp \/ WEnable \/ WWfi \/ WDisable \/ WJitter
    \/ SimLambda \/ SimDelta
    \/ Tick \/ MachineTimer \/ SpuriousWake
SpecEFP == InitEFP /\ [][NextEFP]_vars

\* PT paced by annsim24's wait_until or simple_exti's wait, with the button
InitExti == Init /\ example \in ExtiExamples
NextExti ==
    \/ SimLoop \/ WLoop \/ WCas \/ WNow \/ WInputHandler
    \/ WCmp \/ WEnable \/ WWfi \/ WDisable \/ WRead \/ WJitter
    \/ SimLambda \/ SimDelta
    \/ Tick \/ GPIO9 \/ MachineTimer
SpecExti == InitExti /\ [][NextExti]_vars

\* GPT / EFP paced by wait_sleep, with the scheduling the hardware gives: the
\* tick counter keeps advancing (up to MaxTick), the core executes its next
\* instruction unless it is halted, and a pending enabled machine-timer
\* interrupt is taken.  No other interrupt source is active.
InitSleep == Init /\ example \in SleepExamples /\ model = "GPT"
MainStep ==
    \/ SimLoop \/ WLoop \/ WCmp \/ WEnable \/ WWfi \/ WDisable \/ WJitter
    \/ SimLambda \/ SimDelta
NextSleep == MainStep \/ Tick \/ MachineTimer
FairSpecSleep ==
    /\ InitSleep /\ [][NextSleep]_vars
    /\ WF_vars(MainStep) /\ WF_vars(Tick) /\ WF_vars(MachineTimer)

\* ---- the injectors on their own ----------------------------------------------
\* One pass of annsim24's injection (compare_exchange, debounce test,
\* add_value) or one call of simple_exti's input_handler, started with any
\* content of in_job, any flag, counter, debounce timestamp and tick.
InitInject ==
    /\ example \in ExtiExamples
    /\ model = "PT"
    /\ cfg = [period |-> Second, time |-> Tenths(21), obs_time |-> ObsTime,
              t_stop |-> TSim, max_jitter |-> None]
    /\ \E bag \in {<< >>} \cup {<< v >> : v \in 0 .. MaxPress} :
           m = [StartTree(NewTree(cfg.period, cfg.time, cfg.obs_time), model, 0)
                   EXCEPT !.bags.pt_in_job = bag]
    /\ t = 0
    /\ tni = TNextRoot(m, model)
    /\ pc = IF example = "annsim24" THEN "w_cas" ELSE "w_ih"
    /\ \E k \in 0 .. MaxTick, d \in 0 .. MaxTick, c \in 0 .. MaxPress,
          b \in BOOLEAN :
           /\ d <= k
           /\ wl = [t_next |-> TSim, next_tick |-> next_tick(TSim),
                    debounce |-> d, count |-> c]
           /\ hw = [mtime |-> k, mtimecmp |-> U64MAX, mtie |-> FALSE,
                    pressed |-> b, blueled |-> FALSE]
    /\ obs = [presses |-> 0, successes |-> 0, bursts |-> 0, spurious |-> 0,
              checked |-> FALSE, inserted |-> 0, prevT |-> 0,
              body |-> FALSE, early |-> FALSE, inj |-> NoInj,
              pend |-> FALSE, armed |-> FALSE, job |-> NoJob, deb |-> NoDeb,
              stepped |-> FALSE,
              ret |-> NoRet, jit |-> NoJit, report |-> NoReport,
              jobsOut |-> {}, stopOut |-> {}, nStop |-> 0, gotStop |-> FALSE,
              pre |-> [proc |-> m.proc, p_in |-> << >>, clk |-> m.clk]]
NextInject == WCas \/ WNow \/ WInputHandler
SpecInject == InitInject /\ [][NextInject]_vars

\* ============================ properties ==================================
\* the step at the current time t has run its lambda / its delta
LambdaDone == obs.stepped /\ pc # "sim_lambda"
DeltaDone  == obs.stepped /\ pc \notin {"sim_lambda", "sim_delta"}

\* the configuration of the end-to-end property: period 1, processing time 2.1,
\* window 10, horizon 15, in GPT or EFP
C1_Config ==
    /\ HasG(model)
    /\ cfg.period = Second /\ cfg.time = Tenths(21)
    /\ cfg.obs_time = 10 * Second /\ cfg.t_stop = 15 * Second

C2_JobAtNTimesPeriod ==
    HasG(model) =>
        /\ \A j \in obs.jobsOut : j[1] = j[2] * cfg.period
        /\ ~obs.gotStop =>
               \A n \in 0 .. (t \div cfg.period) :
                   (n * cfg.period < t \/ LambdaDone)
                       => << n * cfg.period, n >> \in obs.jobsOut

\* job 3 has gone out at time 3 * period, for the period of 2 s, before any stop
C2_Witness ==
    /\ HasG(model) /\ cfg.period = 2 * Second /\ ~obs.gotStop
    /\ << 6 * Second, 3 >> \in obs.jobsOut

\* the delta that has just ended called Processor::delta_ext (not through the
\* confluent transition) on a busy Processor with a job in in_job
C3_BusyArrival ==
    /\ pc = "sim_loop"
    /\ m.tr.p.kind = "ext"
    /\ IsSome(obs.pre.proc.job)
    /\ obs.pre.p_in # << >>

\* C3 as stated: a job arriving at a busy Processor leaves job and sigma as they
\* were before the call.
C3_SigmaUnchanged ==
    C3_BusyArrival =>
        /\ m.proc.job = obs.pre.proc.job
        /\ m.proc.sigma = obs.pre.proc.sigma

\* C3 amended: a job arriving at a busy Processor after elapsed time e leaves
\* the job, the processing time and the LED as they were and reduces sigma by
\* exactly e, so the time of completion t_last + sigma is the one scheduled
\* when the job was accepted.
C3_SigmaReducedByElapsed ==
    C3_BusyArrival =>
        /\ m.proc.job = obs.pre.proc.job
        /\ m.proc.time = obs.pre.proc.time
        /\ m.proc.redled = obs.pre.proc.redled
        /\ m.proc.sigma = FSub(obs.pre.proc.sigma, m.tr.p.e)
        /\ m.clk.p.t_next = FAdd(t - m.tr.p.e, obs.pre.proc.sigma)

\* a job has arrived at a busy Processor after a positive elapsed time
C3_Witness == C3_BusyArrival /\ m.tr.p.e > 0 /\ m.proc.sigma < obs.pre.proc.sigma

\* C4 as stated: wait_poll does not return while the tick counter is below
\* T = t * F (ticks / FREQ >= t / Second), and the target tick it computed is
\* t * F.
C4_PollReachesTarget ==
    (example \in PollExamples /\ obs.ret.valid) =>
        /\ obs.ret.tick * Second >= obs.ret.t_next * FREQ
        /\ wl.next_tick * Second = obs.ret.t_next * FREQ

\* C5: whenever a pacing closure computes the jitter, the tick it has just read
\* is at least the target tick, so the unsigned subtraction does not underflow
\* and the jitter, (read - target) in microseconds, is >= 0.
C5_JitterNonNegative ==
    obs.jit.valid =>
        /\ obs.jit.observed >= obs.jit.target
        /\ obs.jit.us = ticks_to_us(obs.jit.observed - obs.jit.target)
        /\ obs.jit.us >= 0

\* simple_exti's wait has computed a jitter of at least one tick
C5_Witness ==
    /\ example = "simple_exti"
    /\ obs.jit.valid /\ obs.jit.observed > obs.jit.target /\ obs.jit.us > 0

\* C6: when the GPIO9 handler has set the flag once, the main loop's
\* compare_exchange has succeeded at most once, and it has succeeded (the event
\* is consumed, the flag clear) as soon as one consuming check has run after the
\* handler's store.
C6_SingleEventOnce ==
    (example \in ExtiExamples /\ obs.presses = 1) =>
        /\ obs.successes <= 1
        /\ obs.checked => (obs.successes = 1 /\ ~hw.pressed)
        /\ ~obs.checked => (obs.successes = 0 /\ hw.pressed)

\* the single event has been consumed by a check that ran after the store
C6_Witness ==
    /\ example = "annsim24" /\ obs.presses = 1
    /\ obs.checked /\ obs.successes = 1

\* C7 as stated: every handler invocation is matched by one successful
\* test-and-clear (counting the one still pending in the flag).
C7_EveryInterruptObserved ==
    example \in ExtiExamples =>
        obs.successes + (IF hw.pressed THEN 1 ELSE 0) = obs.presses

\* C7 amended: the flag holds one event.  Every handler invocation that finds
\* the flag clear is observed by exactly one successful test-and-clear (the
\* pending one counted), and an invocation that finds the flag still set is
\* merged with the pending event: successes never exceed the invocations.
C7_EveryBurstObservedOnce ==
    example \in ExtiExamples =>
        /\ obs.successes + (IF hw.pressed THEN 1 ELSE 0) = obs.bursts
        /\ obs.bursts <= obs.presses

\* two interrupts before the next consuming check were observed as one event
C7_Witness ==
    /\ example \in ExtiExamples
    /\ obs.presses = 2 /\ obs.bursts = 1 /\ obs.successes = 1 /\ ~hw.pressed

\* C8 as stated: under annsim24's wait_until the time returned by a wait is
\* never less than the virtual time of the previous step, and no delta_ext
\* is handed a negative elapsed time.
C8_TimeMonotonic ==
    example = "annsim24" =>
        /\ t >= obs.prevT
        /\ m.tr.p.kind = "ext" => m.tr.p.e >= 0
        /\ m.tr.t.kind = "ext" => m.tr.t.e >= 0

\* C9: every return of annsim24's wait_until gives r <= t_next, and r < t_next
\* only if exactly one value was inserted into in_job during the call, r then
\* being the current tick divided by the tick frequency.
C9_ReturnAtMostTNext ==
    (example = "annsim24" /\ obs.ret.valid) =>
        /\ obs.ret.r <= obs.ret.t_next
        /\ obs.ret.r < obs.ret.t_next =>
               /\ obs.ret.inserted = 1
               /\ Len(m.bags.pt_in_job) = 1 \/ pc # "sim_lambda"
               /\ obs.ret.r = ticku64_to_secf64(obs.ret.tick)

\* wait_until has returned early, with the event of the button in in_job
C9_Witness ==
    /\ example = "annsim24" /\ obs.ret.valid /\ pc = "sim_lambda"
    /\ obs.ret.r < obs.ret.t_next /\ obs.ret.inserted = 1
    /\ m.bags.pt_in_job # << >>

\* C10: in every state of every run (GPT, EFP, PT; every pacing closure) the
\* sigma of the Generator, the Processor and the Transducer is non-negative, in
\* particular right after a delta_ext has subtracted the elapsed time.
C10_SigmaNonNegative ==
    /\ HasG(model) => G_ta(m.gen) >= 0
    /\ P_ta(m.proc) >= 0
    /\ T_ta(m.trans) >= 0

\* a delta_ext of the Transducer in PT has just subtracted a positive elapsed
\* time from a finite sigma
C10_Witness ==
    /\ model = "PT" /\ pc = "sim_loop"
    /\ m.tr.t.kind = "ext" /\ m.tr.t.e > 0
    /\ m.trans.sigma < INFINITY

\* C11 as stated: in every state of the Processor, its initial state included,
\* the Processor is idle (job = None) only with sigma = +infinity.
C11_IdleOnlyPassive ==
    m.proc.job = None => m.proc.sigma = INFINITY

\* C12: when the Transducer's window expires, the acceptance it reports is
\* n_proc / n_gen and the throughput n_proc / clock, clock being the virtual
\* time elapsed since the start (the observation window); both are 0 when
\* n_proc = 0, and no quotient has a zero denominator.
C12_ReportedStatistics ==
    obs.report.valid =>
        /\ obs.report.t = cfg.obs_time
        /\ obs.report.n_proc > 0 =>
               /\ obs.report.acceptance = << obs.report.n_proc, obs.report.n_gen >>
               /\ obs.report.throughput = << obs.report.n_proc, obs.report.t >>
        /\ obs.report.n_proc = 0 =>
               /\ obs.report.acceptance[1] = 0
               /\ obs.report.throughput[1] = 0
        /\ obs.report.acceptance[2] > 0
        /\ obs.report.throughput[2] > 0

\* statistics were reported with jobs processed, after the Transducer had
\* taken external transitions with a positive elapsed time
C12_Witness ==
    /\ obs.report.valid
    /\ obs.report.n_proc > 0 /\ obs.report.n_gen > obs.report.n_proc
    /\ obs.report.throughput[2] = 10 * Second

\* C13: with a bound Some(max_jitter_us), wait_poll / wait_sleep return only
\* with a measured jitter <= max_jitter_us; a jitter above the bound ends in
\* the panic; with None there is no panic; and after the panic no step of the
\* program is taken.
C13_JitterBound ==
    /\ [](example \in PollExamples \cup SleepExamples =>
            /\ (obs.ret.valid /\ cfg.max_jitter # None) =>
                   /\ obs.jit.valid
                   /\ obs.jit.us <= cfg.max_jitter[1]
            /\ (obs.jit.valid /\ cfg.max_jitter # None
                    /\ obs.jit.us > cfg.max_jitter[1]) => pc = "panic"
            /\ cfg.max_jitter = None => pc # "panic")
    /\ [][pc # "panic"]_vars

\* wait_sleep of sleep.rs has panicked on a jitter above its bound of 7000 us
C13_Witness ==
    /\ example = "sleep" /\ cfg.max_jitter = Some(7000)
    /\ pc = "panic" /\ obs.jit.valid /\ obs.jit.us > 7000

\* C14: at every return of wait_sleep, of annsim24's wait_until and of
\* simple_exti's wait, and until the next call, the machine-timer interrupt is
\* disabled: after a timeout, after an early return with an injected event,
\* and when the loop body did not run.
C14_TimerDisabledOnReturn ==
    (example \in SleepExamples \cup ExtiExamples /\ obs.ret.valid) => ~hw.mtie

\* wait_until has returned early with the event of the button, after its loop
\* body had enabled the interrupt and before the compare match
C14_Witness ==
    /\ example = "annsim24" /\ obs.ret.valid /\ obs.body
    /\ obs.ret.r < obs.ret.t_next /\ obs.ret.inserted = 1
    /\ hw.mtimecmp = wl.next_tick /\ ~hw.mtie

C16_WakeOnTickOrEvent ==
    (example = "simple_exti" /\ pc = "w_cmp") =>
        /\ hw.mtime < wl.next_tick
        /\ ~obs.pend

\* C17 as stated: in annsim24, when the GPIO9 handler has run while the call
\* was waiting with the tick below the target and more than one second of
\* ticks after the last accepted event (obs.armed), the core is not halted in
\* wfi below the target with that event still in the flag, and the call
\* returns with the event inserted and the tick below the target.
C17_RaceFreeHandoff ==
    example = "annsim24" =>
        /\ (pc = "w_halt" /\ hw.mtime < wl.next_tick) =>
               ~(hw.pressed /\ obs.armed)
        /\ (obs.ret.valid /\ obs.armed) =>
               /\ obs.ret.inserted = 1
               /\ obs.ret.tick < wl.next_tick

\* the closure has returned a time earlier than the scheduled next event
C18_EarlyReturn ==
    /\ model = "PT" /\ obs.ret.valid /\ obs.ret.r < obs.ret.t_next

\* C18: the step after an early return runs at the returned time r.  No lambda
\* is invoked (no output bag is filled) and no delta_int; delta_ext is invoked
\* on the Processor and on the Transducer, the models in_job is coupled to,
\* with elapsed = r - t_last of that model; and no scheduled event is lost:
\* the Transducer's next event and that of a busy Processor stay where they
\* were, an idle Processor schedules the end of the job it has accepted.
C18_StepAtReturnedTime ==
    C18_EarlyReturn =>
        /\ t = obs.ret.r
        /\ m.bags.p_out_job = << >> /\ m.bags.t_out_stop = << >>
        /\ m.bags.pt_out_stop = << >> /\ m.bags.t_in_proc = << >>
        /\ pc = "sim_loop" =>
               /\ m.tr.p = [kind |-> "ext", e |-> t - obs.pre.clk.p.t_last]
               /\ m.tr.t = [kind |-> "ext", e |-> t - obs.pre.clk.t.t_last]
               /\ m.clk.p.t_last = t /\ m.clk.t.t_last = t
               /\ m.clk.t.t_next = obs.pre.clk.t.t_next
               /\ m.clk.p.t_next = IF IsSome(obs.pre.proc.job)
                                   THEN obs.pre.clk.p.t_next
                                   ELSE FAdd(t, m.proc.time)

\* the step after an early return has been made while the Processor was busy
\* and the window of the Transducer still open
C18_Witness ==
    /\ C18_EarlyReturn /\ pc = "sim_loop"
    /\ IsSome(obs.pre.proc.job) /\ m.tr.p.e > 0
    /\ m.clk.t.t_next < INFINITY /\ m.clk.p.t_next < INFINITY

\* C19: wait_sleep does not return while the tick counter is below the target
\* tick it computed, whatever early wake-ups of wfi occur: the loop is left
\* only with the tick at the target, and in every turn of the loop the compare
\* register is written with the target before the interrupt is enabled and
\* the core halted.
C19_SleepReachesTarget ==
    example \in SleepExamples =>
        /\ obs.ret.valid => obs.ret.tick >= wl.next_tick
        /\ pc \in {"w_disable", "w_jitter"} => hw.mtime >= wl.next_tick
        /\ pc = "w_enable" => hw.mtimecmp = wl.next_tick
        /\ pc \in {"w_wfi", "w_halt"} =>
               hw.mtie /\ hw.mtimecmp \in {wl.next_tick, U64MAX}

\* wait_sleep has returned at its target after wfi had been woken early
\* during the call
C19_Witness ==
    /\ example \in SleepExamples /\ obs.ret.valid /\ obs.early
    /\ obs.ret.tick >= wl.next_tick /\ wl.next_tick > 0

\* C20 as stated: with the tick counter advancing, every call of wait_sleep,
\* once in its loop, eventually ends (it returns to simulate_rt, or panics on
\* the jitter bound).
C20_SleepReturns ==
    (example \in SleepExamples /\ pc = "w_loop")
        ~> (pc \in {"sim_lambda", "panic"})

\* C21: a job accepted by an idle Processor at time `at` is put on out_job
\* once, at time at + processing time, alone and with its own id, whatever
\* arrives while the Processor is busy: until then the Processor holds it
\* with its end scheduled at at + time, and virtual time does not pass that
\* end; after the emission's delta_int the Processor is idle with
\* sigma = +infinity (a job arriving in that same step is accepted next, and
\* is then the job observed).
C21_JobEmittedOnce ==
    obs.job.valid =>
        /\ obs.job.emits <= 1
        /\ obs.job.emits = 0 =>
               /\ m.proc.job = Some(obs.job.id)
               /\ m.clk.p.t_next = obs.job.at + cfg.time
               /\ t <= obs.job.at + cfg.time
               /\ t = obs.job.at + cfg.time => pc \notin {"sim_delta", "sim_loop"}
        /\ obs.job.emits = 1 =>
               /\ obs.job.out = << obs.job.at + cfg.time, << obs.job.id >> >>
               /\ pc # "sim_delta" =>
                      m.proc.job = None /\ m.proc.sigma = INFINITY

\* a job has been emitted at its time after another job had arrived, and been
\* dropped, while the Processor was busy with it: the Generator's count is at
\* least two past the emitted id
C21_Witness ==
    /\ HasG(model) /\ obs.job.valid /\ obs.job.emits = 1
    /\ pc = "sim_loop" /\ m.proc.job = None
    /\ m.gen.count >= obs.job.id + 2

\* C22: in any run the Transducer emits stop once, at the virtual time of its
\* observation window: no stop has another time, none is emitted twice, the
\* stop has been emitted once the step at that time has run its lambda, and
\* from its delta_int on the Transducer's sigma is +infinity, through every
\* later delta_ext.
C22_StopOnce ==
    /\ obs.nStop <= 1
    /\ \A x \in obs.stopOut : x = cfg.obs_time
    /\ (t > cfg.obs_time \/ (t = cfg.obs_time /\ LambdaDone)) => obs.nStop = 1
    /\ obs.nStop = 1 /\ pc # "sim_delta" =>
           m.trans.sigma = INFINITY /\ m.clk.t.t_next = INFINITY

\* after its stop the Transducer has taken an external transition with a
\* positive elapsed time and is still passive
C22_Witness ==
    /\ obs.nStop = 1 /\ pc = "sim_loop" /\ t > cfg.obs_time
    /\ m.tr.t.kind = "ext" /\ m.tr.t.e > 0
    /\ m.trans.sigma = INFINITY

\* C23: in annsim24 two events inserted into in_job are more than one second
\* of ticks apart (the debounce timestamp is the tick of the previous
\* acceptance), and an event consumed within that window of an accepted event
\* is discarded: the flag was cleared by the compare_exchange, nothing is
\* inserted and counter and timestamp stay.
C23_DebounceSeparation ==
    (example = "annsim24" /\ obs.deb.valid) =>
        /\ (obs.deb.ok /\ obs.deb.count > 0) =>
               /\ obs.deb.now - obs.deb.debounce > FREQ
               /\ wl.debounce = obs.deb.now
               /\ wl.count = obs.deb.count + 1
        /\ (~obs.deb.ok) =>
               /\ obs.deb.now - obs.deb.debounce <= FREQ
               /\ obs.inserted = 0 /\ m.bags.pt_in_job = << >>
               /\ wl.count = obs.deb.count /\ wl.debounce = obs.deb.debounce
               /\ hw.pressed => ~obs.checked

\* a second event has been inserted, more than one second of ticks after the
\* first
C23_Witness ==
    /\ example = "annsim24" /\ obs.deb.valid /\ obs.deb.ok
    /\ obs.deb.count = 1 /\ wl.count = 2
    /\ obs.deb.debounce > 0 /\ wl.debounce - obs.deb.debounce > FREQ

\* C24 as stated: the debounce test of annsim24 rejects an event only when an
\* event accepted before lies within the window; the first event of a run is
\* accepted whenever it is consumed.
C24_FirstEventAccepted ==
    (example = "annsim24" /\ obs.deb.valid /\ ~obs.deb.ok) =>
        obs.deb.count > 0

C26_RedLedMirrorsJob ==
    /\ [](pc # "done" => (m.proc.redled <=> IsSome(m.proc.job)))
    /\ [](pc = "done" => ~m.proc.redled)
    /\ [][m'.proc.redled # m.proc.redled =>
              \/ pc = "sim_delta" /\ m'.tr.p.kind # "none"
              \/ pc = "sim_loop" /\ pc' = "done"]_vars

\* the run ends while a job is in process: the stop hook has lowered the LED
C26_Witness ==
    /\ pc = "done" /\ IsSome(m.proc.job) /\ ~m.proc.redled
    /\ obs.job.valid /\ obs.job.emits = 0 /\ obs.presses > 0

C28_NoCapacityExceeded ==
    /\ ~m.panic
    /\ \A p \in DOMAIN Capacity : Len(m.bags[p]) <= 1
    /\ pc = "sim_loop" => m.bags = EmptyBags
    /\ (pc \notin {"sim_lambda", "sim_delta", "sim_loop"} /\ obs.inserted = 0) =>
           m.bags = EmptyBags
    /\ pc # "sim_delta" =>
           \A p \in DOMAIN Capacity \ {"pt_in_job"} : m.bags[p] = << >>
    /\ obs.inserted <= 1
    /\ obs.inj = NoInj

\* the second event of a PT run was inserted into the empty in_job, delivered
\* to the Processor and to the Transducer by the step that followed, and the
\* bags are empty again
C28_Witness ==
    /\ model = "PT" /\ pc = "sim_loop" /\ obs.inserted = 1 /\ wl.count = 2
    /\ obs.pre.p_in = << 1 >> /\ m.bags = EmptyBags
    /\ m.tr.p.kind = "ext" /\ m.tr.t.kind = "ext" /\ m.trans.n_gen = 2


====
